---- MODULE Spec2Model ----
(***************************************************************************)
(* Model of the school resolution engine of src/app/api.py:                *)
(* find_school_zones_and_details, the catalog helpers it calls, and the    *)
(* request handler handle_school_request with geocode_address.             *)
(*                                                                         *)
(* The zone store is seen through `matches`, the rows of all_zones_gdf     *)
(* whose polygon contains the query point, in the row order of the         *)
(* concatenated GeoDataFrame.  The catalog is the schools table, a         *)
(* sequence of rows in table order.  Python's None is NULL.                *)
(***************************************************************************)
EXTENDS Integers, Sequences, FiniteSets, TLC

VARIABLES
    catalog,                    \* rows of the schools table, in table order
    matches,                    \* gdf[gdf.geometry.contains(point)]
    satellite_data,             \* satellite_zones.json
    zone_specific_magnets_data, \* zone_specific_magnets.json
    choice_zone_data,           \* choice_zone_options.json
    pc,                         \* position of the request
    user_network,               \* locals of find_school_zones_and_details
    user_reside_high_school_zone_name,
    final_schools_map,
    results_by_zone,            \* output_structure["results_by_zone"]
    is_in_choice_zone,
    calls,                      \* the add_school calls made so far
    lat, lon,                   \* the coordinates the core is called with
    sort_key, sort_desc,        \* the sort arguments the core is called with
    queried,                    \* the stores the core has read
    address_cache,              \* address -> <<lat, lon, error_type>>
    request,                    \* the request being answered: its route and body
    gmaps_call,                 \* <<>> or what gmaps.geocode did for the request
    response,                   \* <<>> or the one answer: status code and body
    served,                     \* number of requests answered
    db_failures,                \* the helpers whose database access fails
    geocoders                   \* the threads inside geocode_address, and where

vars == <<catalog, matches, satellite_data, zone_specific_magnets_data,
          choice_zone_data, pc, user_network, user_reside_high_school_zone_name,
          final_schools_map, results_by_zone, is_in_choice_zone, calls,
          lat, lon, sort_key, sort_desc, queried, address_cache, request,
          gmaps_call, response, served, db_failures, geocoders>>

NULL == "NULL"

\* A number that may be None is a sequence: empty for None, else the number.
None == <<>>
Some(x) == <<x>>

(***************************************************************************)
(* Bounds of the model.                                                    *)
(***************************************************************************)
NumSchools == 2
MaxCalls == 3
NumFeeders == 2
MaxRequests == 2
NumGeocoders == 2
MaxGeocodes == 2

(***************************************************************************)
(* Vocabulary of the program.                                              *)
(***************************************************************************)
Elementary_School == "Elementary School"
Middle_School == "Middle School"
High_School == "High School"
Levels == {Elementary_School, Middle_School, High_School}

Reside == "Reside"
Satellite_School == "Satellite School"
Magnet_Choice_Program == "Magnet/Choice Program"
Academies_of_Louisville == "Academies of Louisville"
Statuses == {Reside, Satellite_School, Magnet_Choice_Program, Academies_of_Louisville}

TM_Elementary == "Traditional/Magnet Elementary"
TM_Middle == "Traditional/Magnet Middle"
TM_High == "Traditional/Magnet High"
PlainCategories == {"Elementary", "Middle", "High"}
TMCategories == {TM_Elementary, TM_Middle, TM_High}

\* zone_type tags of the loaded layers, in the order they are concatenated
shapefile_configs ==
    << "MST Magnet Middle", TM_High, TM_Middle, TM_Elementary,
       "High", "Middle", "Elementary", "Choice" >>

\* the list changed to start with the high schools
category_order_HighFirst ==
    << "High", "Elementary", "Middle", TM_Elementary, TM_Middle, TM_High >>

category_order ==
    << "Elementary", "Middle", "High", TM_Elementary, TM_Middle, TM_High >>

\* the flag columns that get_address_independent_schools_info selects on
flag_columns ==
    { "universal_magnet_traditional_school",
      "universal_magnet_traditional_program",
      "the_academies_of_louisville",
      "districtwide_pathways" }

(***************************************************************************)
(* str(x).strip().upper() on the identifiers the model draws.              *)
(***************************************************************************)
StripUpper(s) ==
    CASE s = "g2 " -> "G2"
      [] s = " g1" -> "G1"
      [] OTHER -> s

\* str(sca).strip() on the school codes the model draws
Strip(s) ==
    CASE s = "s1 " -> "s1"
      [] s = " a1" -> "a1"
      [] s = " " -> ""
      [] OTHER -> s

Range(f) == { f[i] : i \in DOMAIN f }

(***************************************************************************)
(* Catalog helpers.                                                        *)
(***************************************************************************)
DbHelpers ==
    { "get_info_from_gis", "get_elementary_feeder_scas",
      "get_address_independent_schools_info", "get_school_details_by_scas" }

\* the rows changed to be read whether or not the database can be reached
SchoolsIgnoringFailure(helper) == catalog

\* The rows a helper's query runs over.  When get_db_connection() returns
\* None, or the query raises sqlite3.Error, the helper returns the value it
\* started with, which is what its query gives over no rows.
Schools(helper) == IF helper \in db_failures THEN <<>> ELSE catalog

\* cursor.fetchone() of SELECT ... WHERE gis_name = ? [AND school_level = ?]
GetInfoFromGis(gis_name_key, school_level_hint) ==
    IF gis_name_key = "" \/ gis_name_key = NULL
    THEN [sca |-> NULL, display_name |-> NULL]
    ELSE LET lookup_key == StripUpper(gis_name_key)
             Hit(r) == /\ r.gis_name = lookup_key
                       /\ (school_level_hint # NULL => r.school_level = school_level_hint)
             rows == SelectSeq(Schools("get_info_from_gis"), Hit)
         IN  IF rows = <<>>
             THEN [sca |-> NULL, display_name |-> NULL]
             ELSE [sca |-> rows[1].school_code_adjusted,
                   display_name |-> rows[1].display_name]

\* the feeders changed to be looked up by the raw zone key instead of the
\* display name of the high school it names
GetElementaryFeederScasByGisKey(high_school_gis_key) ==
    LET Feeds(r) == /\ r.feeder_to_high_school = high_school_gis_key
                    /\ r.school_level = Elementary_School
        rows == SelectSeq(Schools("get_elementary_feeder_scas"), Feeds)
    IN  [i \in 1..Len(rows) |-> rows[i].school_code_adjusted]

GetElementaryFeederScas(high_school_gis_key) ==
    LET hs_info == GetInfoFromGis(high_school_gis_key, NULL)
        standard_hs_name == hs_info.display_name
        Feeds(r) == /\ r.feeder_to_high_school = standard_hs_name
                    /\ r.school_level = Elementary_School
        rows == SelectSeq(Schools("get_elementary_feeder_scas"), Feeds)
    IN  IF standard_hs_name = NULL \/ standard_hs_name = ""
        THEN <<>>
        ELSE [i \in 1..Len(rows) |-> rows[i].school_code_adjusted]

\* The projection of a row that the flag query returns: choice_zone is not
\* among the selected columns.
FlagRow(r) ==
    [school_code_adjusted |-> r.school_code_adjusted,
     school_level |-> r.school_level,
     network |-> r.network,
     yes |-> r.yes \cap flag_columns]

GetAddressIndependentSchoolsInfo ==
    LET Flagged(r) == r.yes \cap flag_columns # {}
        rows == SelectSeq(Schools("get_address_independent_schools_info"), Flagged)
    IN  [i \in 1..Len(rows) |-> FlagRow(rows[i])]

\* get_school_details_by_scas changed to answer every code it is asked for,
\* with an empty record for a code the table does not hold
GetSchoolDetailsByScasFabricating(school_codes_adjusted) ==
    LET unique_scas == { Strip(sca) : sca \in { c \in Range(school_codes_adjusted) :
                                                   c # NULL /\ c # "" } }
        found == { r \in Range(Schools("get_school_details_by_scas")) :
                       r.school_code_adjusted \in unique_scas }
    IN  [sca \in unique_scas |->
            IF \E r \in found : r.school_code_adjusted = sca
            THEN CHOOSE r \in found : r.school_code_adjusted = sca
            ELSE [school_code_adjusted |-> sca, display_name |-> NULL,
                  school_level |-> Elementary_School, gis_name |-> NULL,
                  network |-> NULL, feeder_to_high_school |-> NULL,
                  school_zone |-> NULL, yes |-> {}, latitude |-> NULL,
                  longitude |-> NULL, miles |-> 0, great_schools_rating |-> 0,
                  districtwide_pathways_programs |-> NULL, magnet_programs |-> NULL,
                  the_academies_of_louisville_programs |-> NULL]]

\* details_map of get_school_details_by_scas: a function from the codes found
\* in the table to their rows
GetSchoolDetailsByScas(school_codes_adjusted) ==
    LET unique_scas == { Strip(sca) : sca \in { c \in Range(school_codes_adjusted) :
                                                   c # NULL /\ c # "" } }
        found == { r \in Range(Schools("get_school_details_by_scas")) :
                       r.school_code_adjusted \in unique_scas }
    IN  [sca \in { r.school_code_adjusted : r \in found } |->
            CHOOSE r \in found : r.school_code_adjusted = sca]

(***************************************************************************)
(* The priority merge.                                                     *)
(***************************************************************************)
\* current_priority.get(status, 0)
current_priority(status) ==
    CASE status = "Academy Choice" -> 1
      [] status = Magnet_Choice_Program -> 2
      [] status = Satellite_School -> 3
      [] status = Reside -> 4
      [] OTHER -> 0

IndexOf(map, sca) ==
    IF \E i \in 1..Len(map) : map[i].sca = sca
    THEN CHOOSE i \in 1..Len(map) : map[i].sca = sca
    ELSE 0

\* final_schools_map.get(sca, {}).get('status', '')
ExistingStatus(map, sca) ==
    IF IndexOf(map, sca) = 0 THEN "" ELSE map[IndexOf(map, sca)].status

\* add_school changed to keep a list of candidates instead of a map by code
AddSchoolNoDedupe(map, sca, zone_type, status) ==
    IF sca = NULL \/ sca = ""
    THEN map
    ELSE Append(map, [sca |-> sca, zone_type |-> zone_type, status |-> status])

\* The map is kept as the sequence of its items in insertion order.
AddSchool(map, sca, zone_type, status) ==
    IF sca = NULL \/ sca = ""
    THEN map
    ELSE IF current_priority(status) >= current_priority(ExistingStatus(map, sca))
         THEN LET entry == [sca |-> sca, zone_type |-> zone_type, status |-> status]
              IN  IF IndexOf(map, sca) = 0
                  THEN Append(map, entry)
                  ELSE [map EXCEPT ![IndexOf(map, sca)] = entry]
         ELSE map

\* An add_school call: its arguments, and the part of the function that makes it.
Call(sca, zone_type, status, source) ==
    [sca |-> sca, zone_type |-> zone_type, status |-> status, source |-> source]

\* the calls of the function, applied in order to a map
RECURSIVE MergeCalls(_, _)
MergeCalls(map, cs) ==
    IF cs = <<>>
    THEN map
    ELSE MergeCalls(AddSchool(map, Head(cs).sca, Head(cs).zone_type, Head(cs).status),
                    Tail(cs))

(***************************************************************************)
(* find_school_zones_and_details, stage by stage.  A zone row carries its  *)
(* zone_type and, as key, the attribute the code reads for that layer      *)
(* (High for High and Elementary rows, Middle, MST, Traditiona).           *)
(***************************************************************************)
\* any(row.get("zone_type") == "Choice" for _, row in matches.iterrows())
IsInChoiceZoneOf(rows) == \E i \in 1..Len(rows) : rows[i].zone_type = "Choice"

IsInChoiceZone == IsInChoiceZoneOf(matches)

\* the home context changed to come from the first High row that resolves
HomeDetailsOfFirstResolving(rows) ==
    LET Resolves(row) ==
            /\ row.zone_type = "High"
            /\ StripUpper(row.key) # ""
            /\ GetInfoFromGis(StripUpper(row.key), High_School).sca # NULL
        high_rows == SelectSeq(rows, Resolves)
    IN  IF high_rows = <<>>
        THEN <<>>
        ELSE LET hs_info == GetInfoFromGis(StripUpper(high_rows[1].key), High_School)
                 lookup == GetSchoolDetailsByScas(<<hs_info.sca>>)
             IN  IF hs_info.sca \in DOMAIN lookup THEN <<lookup[hs_info.sca]>> ELSE <<>>

\* The home context comes from the first matched row of the High layer, and
\* the loop breaks after that row whether or not it resolved: hs_details as
\* a sequence, empty when the loop leaves both locals None.
HomeDetailsOf(rows) ==
    LET IsHigh(row) == row.zone_type = "High"
        high_rows == SelectSeq(rows, IsHigh)
    IN  IF high_rows = <<>>
        THEN <<>>
        ELSE LET hs_gis_key == StripUpper(high_rows[1].key)
                 hs_info == GetInfoFromGis(hs_gis_key, High_School)
                 lookup == GetSchoolDetailsByScas(<<hs_info.sca>>)
             IN  IF hs_gis_key = "" \/ hs_info.sca = NULL
                 THEN <<>>
                 ELSE IF hs_info.sca \in DOMAIN lookup
                      THEN <<lookup[hs_info.sca]>>
                      ELSE <<>>

HomeDetails == HomeDetailsOf(matches)

HomeNetwork == IF HomeDetails = <<>> THEN NULL ELSE HomeDetails[1].network

HomeZoneName == IF HomeDetails = <<>> THEN NULL ELSE HomeDetails[1].school_zone

\* "High" in zone_type / "Middle" in zone_type, on the eight layer tags
LevelHint(zone_type) ==
    IF zone_type \in {"High", TM_High} THEN High_School
    ELSE IF zone_type \in {"Middle", TM_Middle, "MST Magnet Middle"} THEN Middle_School
    ELSE NULL

\* "if gis_key: info = get_info_from_gis(...); if info.get('sca'): add_school(...)"
ResolvedCalls(gis_key, level_hint, zone_type, status) ==
    LET info == GetInfoFromGis(gis_key, level_hint)
    IN  IF gis_key = "" \/ gis_key = NULL \/ info.sca = NULL
        THEN <<>>
        ELSE <<Call(info.sca, zone_type, status, "gis")>>

\* the calls of one iteration of the loop over matches
GisRowCalls(row) ==
    LET zone_type == row.zone_type
        level_hint == LevelHint(zone_type)
        gis_key == StripUpper(row.key)
        feeders == GetElementaryFeederScas(gis_key)
    IN  IF zone_type = "Elementary"
        THEN [i \in 1..Len(feeders) |-> Call(feeders[i], "Elementary", Reside, "feeder")]
        ELSE IF zone_type \in {"High", "Middle"}
        THEN ResolvedCalls(gis_key, level_hint, zone_type, Reside)
        ELSE IF zone_type = "MST Magnet Middle"
        THEN ResolvedCalls(gis_key, level_hint, TM_Middle, Magnet_Choice_Program)
        ELSE IF zone_type \in TMCategories
        THEN ResolvedCalls(gis_key, level_hint, zone_type, Magnet_Choice_Program)
        ELSE <<>>

RECURSIVE GisCalls(_)
GisCalls(rows) ==
    IF rows = <<>> THEN <<>> ELSE GisRowCalls(Head(rows)) \o GisCalls(Tail(rows))

TableCalls(codes, zone_type, status, source) ==
    [i \in 1..Len(codes) |-> Call(codes[i], zone_type, status, source)]

\* the tables changed to read the choice-zone options wherever the point lies
JsonCallsChoiceAlways(zone_name, in_choice) ==
    LET named == zone_name # NULL /\ zone_name # ""
        sat == IF named /\ zone_name \in DOMAIN satellite_data
               THEN TableCalls(satellite_data[zone_name], TM_Elementary,
                               Satellite_School, "satellite")
               ELSE <<>>
        mag == IF named /\ zone_name \in DOMAIN zone_specific_magnets_data
               THEN TableCalls(zone_specific_magnets_data[zone_name], TM_Elementary,
                               Magnet_Choice_Program, "zone_magnet")
               ELSE <<>>
        cho == IF zone_name \in DOMAIN choice_zone_data
               THEN TableCalls(choice_zone_data[zone_name].Elementary, "Elementary",
                               Reside, "choice")
                    \o TableCalls(choice_zone_data[zone_name].Middle, "Middle",
                                  Reside, "choice")
               ELSE <<>>
    IN  sat \o mag \o cho

\* the three override tables, keyed by the reside-zone name
JsonCalls(zone_name, in_choice) ==
    LET named == zone_name # NULL /\ zone_name # ""
        sat == IF named /\ zone_name \in DOMAIN satellite_data
               THEN TableCalls(satellite_data[zone_name], TM_Elementary,
                               Satellite_School, "satellite")
               ELSE <<>>
        mag == IF named /\ zone_name \in DOMAIN zone_specific_magnets_data
               THEN TableCalls(zone_specific_magnets_data[zone_name], TM_Elementary,
                               Magnet_Choice_Program, "zone_magnet")
               ELSE <<>>
        cho == IF in_choice /\ zone_name \in DOMAIN choice_zone_data
               THEN TableCalls(choice_zone_data[zone_name].Elementary, "Elementary",
                               Reside, "choice")
                    \o TableCalls(choice_zone_data[zone_name].Middle, "Middle",
                                  Reside, "choice")
               ELSE <<>>
    IN  sat \o mag \o cho

\* the flag rules changed to drop the network comparison of the academy rule
FlagStatusIgnoringNetwork(school_info, network) ==
    LET is_districtwide_pathway == "districtwide_pathways" \in school_info.yes
        is_universal_magnet ==
            \/ "universal_magnet_traditional_school" \in school_info.yes
            \/ "universal_magnet_traditional_program" \in school_info.yes
            \/ "choice_zone" \in school_info.yes
        is_academy_choice == "the_academies_of_louisville" \in school_info.yes
    IN  IF is_districtwide_pathway THEN Magnet_Choice_Program
        ELSE IF is_academy_choice THEN Academies_of_Louisville
        ELSE IF is_universal_magnet THEN Magnet_Choice_Program
        ELSE NULL

\* the flag rules changed to try the academy rule before the pathway rule
FlagStatusAcademyFirst(school_info, network) ==
    LET is_districtwide_pathway == "districtwide_pathways" \in school_info.yes
        is_universal_magnet ==
            \/ "universal_magnet_traditional_school" \in school_info.yes
            \/ "universal_magnet_traditional_program" \in school_info.yes
            \/ "choice_zone" \in school_info.yes
        is_academy_choice == /\ "the_academies_of_louisville" \in school_info.yes
                             /\ school_info.network = network
    IN  IF is_academy_choice THEN Academies_of_Louisville
        ELSE IF is_districtwide_pathway THEN Magnet_Choice_Program
        ELSE IF is_universal_magnet THEN Magnet_Choice_Program
        ELSE NULL

\* status given to one row of the flag query; NULL when no rule matches
FlagStatus(school_info, network) ==
    LET is_districtwide_pathway == "districtwide_pathways" \in school_info.yes
        is_universal_magnet ==
            \/ "universal_magnet_traditional_school" \in school_info.yes
            \/ "universal_magnet_traditional_program" \in school_info.yes
            \/ "choice_zone" \in school_info.yes
        is_academy_choice == /\ "the_academies_of_louisville" \in school_info.yes
                             /\ school_info.network = network
    IN  IF is_districtwide_pathway THEN Magnet_Choice_Program
        ELSE IF is_academy_choice THEN Academies_of_Louisville
        ELSE IF is_universal_magnet THEN Magnet_Choice_Program
        ELSE NULL

LevelCategory(school_lvl) ==
    CASE school_lvl = Elementary_School -> TM_Elementary
      [] school_lvl = Middle_School -> TM_Middle
      [] school_lvl = High_School -> TM_High
      [] OTHER -> NULL

RECURSIVE FlagCalls(_, _)
FlagCalls(infos, network) ==
    IF infos = <<>>
    THEN <<>>
    ELSE LET school_info == Head(infos)
             status == FlagStatus(school_info, network)
             zone_type == LevelCategory(school_info.school_level)
         IN  (IF status # NULL /\ zone_type # NULL
              THEN <<Call(school_info.school_code_adjusted, zone_type, status, "flag")>>
              ELSE <<>>)
             \o FlagCalls(Tail(infos), network)

\* every add_school call of one resolution over the matched rows, in the
\* order the code makes them
AllCallsOf(rows) ==
    LET hs_details == HomeDetailsOf(rows)
        zone_name == IF hs_details = <<>> THEN NULL ELSE hs_details[1].school_zone
        network == IF hs_details = <<>> THEN NULL ELSE hs_details[1].network
    IN  GisCalls(rows) \o JsonCalls(zone_name, IsInChoiceZoneOf(rows))
        \o FlagCalls(GetAddressIndependentSchoolsInfo, network)

AllCalls == AllCallsOf(matches)

(***************************************************************************)
(* Final assembly.                                                         *)
(***************************************************************************)
\* "... if details.get('latitude') else None": None as a distance
NoDistance == -1

\* The distance geodesic gives when the school's longitude is None and the
\* library reads it as 0: the way from Jefferson County to the prime meridian.
ZeroLongitudeMiles == 4400

\* round(geodesic((lat, lon), (latitude, longitude)).miles, 1)
\*     if details.get('latitude') else None
DistanceMi(details) ==
    IF details.latitude = NULL THEN NoDistance
    ELSE IF details.longitude = NULL THEN ZeroLongitudeMiles
    ELSE details.miles

\* What geodesic does in the loop over the map.  For a school with a
\* latitude and no longitude, Point((latitude, None)) raises ValueError in
\* geopy 2 and reads the longitude as 0 in geopy 1; the repository pins no
\* version.
GeodesicOutcomes(map) ==
    LET school_details_lookup == GetSchoolDetailsByScas([i \in 1..Len(map) |-> map[i].sca])
    IN  IF \E sca \in DOMAIN school_details_lookup :
               /\ school_details_lookup[sca].latitude # NULL
               /\ school_details_lookup[sca].longitude = NULL
        THEN {"raises", "zero_longitude"}
        ELSE {"computes"}

\* the category changed to be the plain one of the school's level for every
\* status
FinalZoneTypeAlwaysByLevel(info, details) ==
    CASE details.school_level = Elementary_School -> "Elementary"
      [] details.school_level = Middle_School -> "Middle"
      [] details.school_level = High_School -> "High"
      [] OTHER -> info.zone_type

\* the category under which an entry is filed
FinalZoneType(info, details) ==
    IF info.status = Reside
    THEN CASE details.school_level = Elementary_School -> "Elementary"
           [] details.school_level = Middle_School -> "Middle"
           [] details.school_level = High_School -> "High"
           [] OTHER -> info.zone_type
    ELSE info.zone_type

\* a Python value that is falsy: None or the empty string
Falsy(x) == x = NULL \/ x = ""

NoAnnotation == [display_program_type |-> NULL, display_programs |-> NULL]

\* the annotation changed to prefer the magnet programs to the pathway ones
ProgramAnnotationMagnetFirst(display_status, details) ==
    IF display_status = Magnet_Choice_Program
    THEN IF ~Falsy(details.magnet_programs)
         THEN [display_program_type |-> "Magnet",
               display_programs |-> details.magnet_programs]
         ELSE IF /\ "districtwide_pathways" \in details.yes
                 /\ ~Falsy(details.districtwide_pathways_programs)
         THEN [display_program_type |-> "Districtwide Pathway",
               display_programs |-> details.districtwide_pathways_programs]
         ELSE NoAnnotation
    ELSE IF \/ display_status = Academies_of_Louisville
            \/ /\ display_status = Reside
               /\ ~Falsy(details.the_academies_of_louisville_programs)
    THEN [display_program_type |-> "Academies of Louisville",
          display_programs |-> details.the_academies_of_louisville_programs]
    ELSE NoAnnotation

\* display_program_type and display_programs of one entry
ProgramAnnotation(display_status, details) ==
    IF display_status = Magnet_Choice_Program
    THEN IF /\ "districtwide_pathways" \in details.yes
            /\ ~Falsy(details.districtwide_pathways_programs)
         THEN [display_program_type |-> "Districtwide Pathway",
               display_programs |-> details.districtwide_pathways_programs]
         ELSE IF ~Falsy(details.magnet_programs)
         THEN [display_program_type |-> "Magnet",
               display_programs |-> details.magnet_programs]
         ELSE NoAnnotation
    ELSE IF \/ display_status = Academies_of_Louisville
            \/ /\ display_status = Reside
               /\ ~Falsy(details.the_academies_of_louisville_programs)
    THEN [display_program_type |-> "Academies of Louisville",
          display_programs |-> details.the_academies_of_louisville_programs]
    ELSE NoAnnotation

SchoolEntry(info, details) ==
    [school_code_adjusted |-> details.school_code_adjusted,
     display_name |-> details.display_name,
     school_level |-> details.school_level,
     display_status |-> info.status,
     distance_mi |-> DistanceMi(details),
     great_schools_rating |-> details.great_schools_rating,
     display_program_type |-> ProgramAnnotation(info.status, details).display_program_type,
     display_programs |-> ProgramAnnotation(info.status, details).display_programs]

\* schools_by_zone_type[zone_type]: the entries of the map, in map order,
\* that have details and are filed under zone_type
SchoolsByZoneType(map, zone_type) ==
    LET school_details_lookup == GetSchoolDetailsByScas([i \in 1..Len(map) |-> map[i].sca])
        Filed(info) == /\ info.sca \in DOMAIN school_details_lookup
                       /\ FinalZoneType(info, school_details_lookup[info.sca]) = zone_type
        infos == SelectSeq(map, Filed)
    IN  [i \in 1..Len(infos) |-> SchoolEntry(infos[i], school_details_lookup[infos[i].sca])]

\* key=lambda x: (x.get('distance_mi') is None, x.get('distance_mi', inf))
SortKeyLess(a, b) ==
    LET na == IF a.distance_mi = NoDistance THEN 1 ELSE 0
        nb == IF b.distance_mi = NoDistance THEN 1 ELSE 0
    IN  \/ na < nb
        \/ na = nb /\ na = 0 /\ a.distance_mi < b.distance_mi

RECURSIVE InsertSorted(_, _)
InsertSorted(sorted, x) ==
    IF sorted = <<>> THEN <<x>>
    ELSE IF SortKeyLess(x, Head(sorted)) THEN <<x>> \o sorted
    ELSE <<Head(sorted)>> \o InsertSorted(Tail(sorted), x)

\* list.sort is stable
RECURSIVE SortSchools(_)
SortSchools(schools) ==
    IF schools = <<>> THEN <<>>
    ELSE InsertSorted(SortSchools(SubSeq(schools, 1, Len(schools) - 1)),
                      schools[Len(schools)])

RECURSIVE OutputFrom(_, _)
OutputFrom(map, k) ==
    IF k > Len(category_order) THEN <<>>
    ELSE LET schools == SchoolsByZoneType(map, category_order[k])
         IN  IF schools = <<>>
             THEN OutputFrom(map, k + 1)
             ELSE <<[zone_type |-> category_order[k], schools |-> SortSchools(schools)]>>
                  \o OutputFrom(map, k + 1)

OutputStructure(map) == OutputFrom(map, 1)

(***************************************************************************)
(* The call of the core, and the handler around it.  Coordinates are in    *)
(* tenths of a degree.                                                     *)
(***************************************************************************)
JEFFERSON_COUNTY_BOUNDS ==
    [min_lat |-> 379, max_lat |-> 384, min_lon |-> -861, max_lon |-> -853]

InBounds(p_lat, p_lon) ==
    /\ JEFFERSON_COUNTY_BOUNDS.min_lat <= p_lat
    /\ p_lat <= JEFFERSON_COUNTY_BOUNDS.max_lat
    /\ JEFFERSON_COUNTY_BOUNDS.min_lon <= p_lon
    /\ p_lon <= JEFFERSON_COUNTY_BOUNDS.max_lon

\* the guard changed to test the latitude only
InvalidCoordsLatOnly(p_lat, p_lon) == p_lat = None

\* "if lat is None or lon is None"
InvalidCoords(p_lat, p_lon) == p_lat = None \/ p_lon = None

\* the function changed to drop the satellite table it has read
CoreFrameDroppingTable ==
    /\ satellite_data' = << >>
    /\ UNCHANGED <<catalog, db_failures, geocoders, matches, zone_specific_magnets_data, choice_zone_data,
                   address_cache>>

\* The module globals and the tables behind them: the function assigns none.
CoreFrame ==
    UNCHANGED <<catalog, db_failures, geocoders, matches, satellite_data, zone_specific_magnets_data,
                choice_zone_data, address_cache>>

\* One call find_school_zones_and_details(p_lat, p_lon, all_zones_gdf, ...):
\* pc becomes "invalid" when it returns (None, False) at once, "raised" when
\* geodesic raises out of it, and "done" when it returns the structure.  The
\* sort arguments are not read.
FindSchoolZonesAndDetailsCall(p_lat, p_lon) ==
    /\ IF InvalidCoords(p_lat, p_lon)
       THEN /\ pc' = "invalid"
            /\ queried' = {}
            /\ is_in_choice_zone' = FALSE
            /\ user_network' = NULL
            /\ user_reside_high_school_zone_name' = NULL
            /\ calls' = <<>>
            /\ final_schools_map' = <<>>
            /\ results_by_zone' = <<>>
       ELSE /\ queried' = {"all_zones_gdf", "schools"}
            /\ is_in_choice_zone' = IsInChoiceZone
            /\ user_network' = HomeNetwork
            /\ user_reside_high_school_zone_name' = HomeZoneName
            /\ calls' = AllCalls
            /\ final_schools_map' = MergeCalls(<<>>, calls')
            /\ \E outcome \in GeodesicOutcomes(final_schools_map') :
                   IF outcome = "raises"
                   THEN /\ pc' = "raised"
                        /\ results_by_zone' = <<>>
                   ELSE /\ pc' = "done"
                        /\ results_by_zone' = OutputStructure(final_schools_map')
    /\ CoreFrame

\* the first value the core returns: <<>> for None, else the one structure
StructuredResults(p_pc, p_results_by_zone) ==
    IF p_pc = "done" THEN <<[results_by_zone |-> p_results_by_zone]>> ELSE <<>>

\* the answer changed to report an error when no school was found
ResponseDataErrorWhenEmpty(address, p_lat, p_lon, structured_results, in_choice) ==
    [query_address |-> address, query_lat |-> p_lat, query_lon |-> p_lon,
     is_in_choice_zone |-> in_choice,
     results_by_zone |->
         IF structured_results = <<>> \/ structured_results[1].results_by_zone = <<>>
         THEN <<[error |-> "No schools found"]>>
         ELSE structured_results[1].results_by_zone]

\* response_data, with **(structured_results or {"results_by_zone": []})
ResponseData(address, p_lat, p_lon, structured_results, in_choice) ==
    [query_address |-> address, query_lat |-> p_lat, query_lon |-> p_lon,
     is_in_choice_zone |-> in_choice,
     results_by_zone |->
         IF structured_results = <<>>
         THEN <<>>
         ELSE structured_results[1].results_by_zone]

\* geocode_address: the values it returns and the cache it leaves.
\* gmaps_result is what gmaps.geocode does: raise, or return a list.
GeocodeAddress(p_address, cache, gmaps_result) ==
    LET address == Strip(p_address)
        Answer(p_lat, p_lon, error_type, keep) ==
            [lat |-> p_lat, lon |-> p_lon, error_type |-> error_type,
             cache |-> IF keep THEN cache
                       ELSE (address :> <<p_lat, p_lon, error_type>>) @@ cache]
    IN  IF address = ""
        THEN Answer(None, None, "not_found", TRUE)
        ELSE IF address \in DOMAIN cache
        THEN Answer(cache[address][1], cache[address][2], cache[address][3], TRUE)
        ELSE IF gmaps_result.raises
        THEN Answer(None, None, "service_error", FALSE)
        ELSE IF gmaps_result.results = <<>>
        THEN Answer(None, None, "not_found", FALSE)
        ELSE LET location == gmaps_result.results[1]
             IN  IF ~InBounds(location.lat, location.lng)
                 THEN Answer(None, None, "not_found", FALSE)
                 ELSE Answer(Some(location.lat), Some(location.lng), NULL, FALSE)

\* the value geocode_address stores and returns after a cache miss
GeocodeOutcome(p_address, gmaps_result) ==
    LET geo == GeocodeAddress(p_address, << >>, gmaps_result)
    IN  <<geo.lat, geo.lon, geo.error_type>>

\* the handler changed to treat a service error like any other failure
ErrorStatusCodeNoServiceError(p_lat, p_lon, geocode_error_type) ==
    IF p_lat = None \/ p_lon = None THEN 400
    ELSE IF ~InBounds(p_lat[1], p_lon[1]) THEN 400
    ELSE 0

\* The status code of the handler's error answer after geocoding; 0 when
\* user_facing_error_message stays None.
ErrorStatusCode(p_lat, p_lon, geocode_error_type) ==
    IF geocode_error_type = "service_error" THEN 503
    ELSE IF p_lat = None \/ p_lon = None THEN 400
    ELSE IF ~InBounds(p_lat[1], p_lon[1]) THEN 400
    ELSE 0

ErrorAnswer(status_code) == <<[status |-> status_code, body |-> [error |-> "error"]]>>

(***************************************************************************)
(* The inputs the model draws.                                             *)
(***************************************************************************)
SchoolCode(i) == <<"s1", "s2", "s3", "s4">>[i]
DisplayName(i) == <<"D1", "D2", "D3", "D4">>[i]

Row(i, level, gis, network, feeder, zone, yes) ==
    [school_code_adjusted |-> SchoolCode(i),
     display_name |-> DisplayName(i),
     school_level |-> level,
     gis_name |-> gis,
     network |-> network,
     feeder_to_high_school |-> feeder,
     school_zone |-> zone,
     yes |-> yes,
     latitude |-> "38.2",
     longitude |-> "-85.7",
     miles |-> 10 * i,
     great_schools_rating |-> i,
     districtwide_pathways_programs |-> NULL,
     magnet_programs |-> NULL,
     the_academies_of_louisville_programs |-> NULL]

\* the flag columns that are 'Yes', with the network of the row
FlagNetworks ==
    { <<{}, NULL>>,
      <<{"universal_magnet_traditional_school"}, NULL>>,
      <<{"universal_magnet_traditional_program", "choice_zone"}, NULL>>,
      <<{"districtwide_pathways"}, NULL>>,
      <<{"the_academies_of_louisville"}, NULL>>,
      <<{"the_academies_of_louisville"}, "A">>,
      <<{"the_academies_of_louisville"}, "B">>,
      <<{"the_academies_of_louisville", "districtwide_pathways"}, "A">> }

\* The first row of the table is a high school with gis_name G1, the school
\* the High, Traditional/Magnet and Elementary-cluster keys of the drawn zone
\* rows name.  school_zone is read from a high school only, and
\* feeder_to_high_school from an elementary school only.
FirstRows ==
    { Row(1, High_School, "G1", NULL, NULL, NULL, {}),
      Row(1, High_School, "G1", "A", NULL, "Z1", {}),
      Row(1, High_School, "G1", "A", NULL, "Z1", {"the_academies_of_louisville"}),
      Row(1, High_School, "G1", NULL, NULL, "Z1", {"the_academies_of_louisville"}) }

\* further rows of the table
OtherRows(i) ==
    IF i > 2
    THEN { Row(i, Elementary_School, "G2", NULL, "D1", NULL, {}),
           Row(i, Middle_School, "G1", NULL, NULL, NULL,
               {"universal_magnet_traditional_school"}),
           Row(i, High_School, "G2", "A", NULL, "Z1", {"the_academies_of_louisville"}) }
    ELSE
    { Row(i, Elementary_School, "G2", fn[2], f, NULL, fn[1]) :
        fn \in FlagNetworks, f \in {NULL, "D1"} }
    \cup { Row(i, Middle_School, g, fn[2], NULL, NULL, fn[1]) :
        fn \in FlagNetworks, g \in {"G1", "G2"} }
    \cup { Row(i, High_School, "G2", fn[2], NULL, "Z1", fn[1]) : fn \in FlagNetworks }

RECURSIVE Catalogs(_)
Catalogs(n) ==
    IF n = 1 THEN { <<r>> : r \in FirstRows }
    ELSE { Append(c, r) : c \in Catalogs(n - 1), r \in OtherRows(n) }

ZoneRow(zone_type, key) == [zone_type |-> zone_type, key |-> key]

\* rows a point can match, per layer; <<>> when the layer has no match
MagnetLayerMatches ==
    { <<>>, <<ZoneRow("MST Magnet Middle", "G2")>>, <<ZoneRow(TM_High, " g1")>>,
      <<ZoneRow(TM_Elementary, "G1")>> }
\* the last one: two polygons of the High layer contain the point
HighLayerMatches ==
    { <<>>, <<ZoneRow("High", " g1")>>, <<ZoneRow("High", "G3")>>,
      <<ZoneRow("High", "G3"), ZoneRow("High", " g1")>> }
MiddleLayerMatches == { <<>>, <<ZoneRow("Middle", "g2 ")>> }
ElementaryLayerMatches == { <<>>, <<ZoneRow("Elementary", "G1")>> }
ChoiceLayerMatches == { <<>>, <<ZoneRow("Choice", "")>> }

MatchSets ==
    { m \o h \o mi \o e \o c :
        m \in MagnetLayerMatches, h \in HighLayerMatches, mi \in MiddleLayerMatches,
        e \in ElementaryLayerMatches, c \in ChoiceLayerMatches }

NoTable == << >>
Table(zone, codes) == [z \in {zone} |-> codes]

\* <<satellite_data, zone_specific_magnets_data, choice_zone_data>>
TableSets ==
    { <<NoTable, NoTable, NoTable>>,
      <<Table("Z1", <<"s2">>), NoTable, NoTable>>,
      <<NoTable, Table("Z1", <<"s2", "x9">>), NoTable>>,
      <<Table("Z1", <<"s2", "s1 ">>), Table("Z1", <<"s2">>), NoTable>>,
      <<NoTable, NoTable,
        Table("Z1", [Elementary |-> <<"s2">>, Middle |-> <<NULL, "s2">>])>> }

\* a point inside the county, and one north of it
QueryPoint == [lat |-> 382, lng |-> -857]
OutsidePoint == [lat |-> 390, lng |-> -857]

\* the cache after an address has been geocoded to the query point
PriorCache == "a1" :> <<Some(QueryPoint.lat), Some(QueryPoint.lng), NULL>>

\* no request is being handled: the core is called with its default sort
\* arguments
NoRequest ==
    /\ sort_key = NULL
    /\ sort_desc = FALSE
    /\ queried = {}
    /\ request = <<>>
    /\ gmaps_call = <<>>
    /\ response = <<>>
    /\ served = 0

(***************************************************************************)
(* The specification of one resolution.                                    *)
(***************************************************************************)
Init ==
    /\ catalog \in Catalogs(NumSchools)
    /\ db_failures = {}
    /\ geocoders = <<>>
    /\ matches \in MatchSets
    /\ \E t \in TableSets :
           /\ satellite_data = t[1]
           /\ zone_specific_magnets_data = t[2]
           /\ choice_zone_data = t[3]
    /\ pc = "ready"
    /\ user_network = NULL
    /\ user_reside_high_school_zone_name = NULL
    /\ final_schools_map = <<>>
    /\ results_by_zone = <<>>
    /\ is_in_choice_zone = FALSE
    /\ calls = <<>>
    /\ lat = Some(QueryPoint.lat)
    /\ lon = Some(QueryPoint.lng)
    /\ address_cache = PriorCache
    /\ NoRequest

\* find_school_zones_and_details(lat, lon, all_zones_gdf), called by itself
FindSchoolZonesAndDetails ==
    /\ pc = "ready"
    /\ FindSchoolZonesAndDetailsCall(lat, lon)
    /\ UNCHANGED <<lat, lon, sort_key, sort_desc, request, gmaps_call, response,
                   served>>

Next == FindSchoolZonesAndDetails

Spec == Init /\ [][Next]_vars

(***************************************************************************)
(* The specification of the merge alone: add_school called with any        *)
(* arguments, in any order, on one map.                                    *)
(***************************************************************************)
MergeCodes == {"s1", "s2", NULL}

InitMerge ==
    /\ catalog = <<>>
    /\ db_failures = {}
    /\ geocoders = <<>>
    /\ matches = <<>>
    /\ satellite_data = NoTable
    /\ zone_specific_magnets_data = NoTable
    /\ choice_zone_data = NoTable
    /\ pc = "merge"
    /\ user_network = NULL
    /\ user_reside_high_school_zone_name = NULL
    /\ final_schools_map = <<>>
    /\ results_by_zone = <<>>
    /\ is_in_choice_zone = FALSE
    /\ calls = <<>>
    /\ lat = None
    /\ lon = None
    /\ address_cache = << >>
    /\ NoRequest

AddSchoolCall ==
    /\ pc = "merge"
    /\ Len(calls) < MaxCalls
    /\ \E sca \in MergeCodes, status \in Statuses, zone_type \in {"Elementary", TM_Elementary} :
           /\ final_schools_map' = AddSchool(final_schools_map, sca, zone_type, status)
           /\ calls' = Append(calls, Call(sca, zone_type, status, "call"))
    /\ UNCHANGED <<catalog, db_failures, geocoders, matches, satellite_data, zone_specific_magnets_data,
                   choice_zone_data, pc, user_network,
                   user_reside_high_school_zone_name, results_by_zone,
                   is_in_choice_zone, lat, lon, sort_key, sort_desc, queried,
                   address_cache, request, gmaps_call, response, served>>

NextMerge == AddSchoolCall

SpecMerge == InitMerge /\ [][NextMerge]_vars

(***************************************************************************)
(* The specification of one resolution over a feeder cluster: a high       *)
(* school and elementary schools that differ in name, in the coordinates   *)
(* their rows hold and in the high school they feed.  The core is called   *)
(* with coordinates that may be None.                                      *)
(***************************************************************************)
\* <<latitude, longitude, miles>> of a row
Locations ==
    { <<"38.2", "-85.7", 10>>, <<"38.2", "-85.7", 20>>,
      <<NULL, "-85.7", 10>>, <<"38.2", NULL, 10>>, <<NULL, NULL, 10>> }

FeederNames == {"alpha", "Beta"}

Located(row, name, location, rating) ==
    [row EXCEPT !.display_name = name,
                !.latitude = location[1],
                !.longitude = location[2],
                !.miles = location[3],
                !.great_schools_rating = rating]

FeederRows(i) ==
    { Located(Row(i, Elementary_School, "G2", NULL, f, NULL, {}), name, location, i) :
        f \in {"D1", "D2"}, name \in FeederNames, location \in Locations }

RECURSIVE LocatedCatalogs(_)
LocatedCatalogs(n) ==
    IF n = 0 THEN { <<Row(1, High_School, "G1", NULL, NULL, NULL, {})>> }
    ELSE { Append(c, r) : c \in LocatedCatalogs(n - 1), r \in FeederRows(n + 1) }

LocatedMatches ==
    { <<ZoneRow("Elementary", "G1")>>,
      <<ZoneRow("High", " g1"), ZoneRow("Elementary", "G1"), ZoneRow("Choice", "")>>,
      <<ZoneRow("Elementary", "G3")>> }

InitLocated ==
    /\ catalog \in LocatedCatalogs(NumFeeders)
    /\ db_failures = {}
    /\ geocoders = <<>>
    /\ matches \in LocatedMatches
    /\ satellite_data = NoTable
    /\ zone_specific_magnets_data = NoTable
    /\ choice_zone_data = NoTable
    /\ pc = "ready"
    /\ user_network = NULL
    /\ user_reside_high_school_zone_name = NULL
    /\ final_schools_map = <<>>
    /\ results_by_zone = <<>>
    /\ is_in_choice_zone = FALSE
    /\ calls = <<>>
    /\ lat \in {None, Some(QueryPoint.lat)}
    /\ lon \in {None, Some(QueryPoint.lng)}
    /\ address_cache = PriorCache
    /\ NoRequest

SpecLocated == InitLocated /\ [][Next]_vars

(***************************************************************************)
(* The specification of one resolution over a table whose second school    *)
(* carries any combination of the five flags and of the three program      *)
(* lists, next to a high school that the High zone names.                  *)
(***************************************************************************)
Programs(row, pathway, magnet, academy) ==
    [row EXCEPT !.districtwide_pathways_programs = pathway,
                !.magnet_programs = magnet,
                !.the_academies_of_louisville_programs = academy]

HomeRows ==
    { Programs(Row(1, High_School, "G1", "A", NULL, "Z1", yes), NULL, NULL, academy) :
        yes \in {{}, {"the_academies_of_louisville"}}, academy \in {NULL, "P3"} }

FlaggedRows ==
    { Programs(Row(2, level, "G2", network, NULL, NULL, yes), pathway, magnet, academy) :
        level \in {Elementary_School, Middle_School},
        network \in {"A", "B"},
        yes \in SUBSET (flag_columns \cup {"choice_zone"}),
        pathway \in {NULL, "P1"},
        magnet \in {NULL, "", "P2"},
        academy \in {NULL, "P3"} }

FlagMatches ==
    { <<>>, <<ZoneRow("High", " g1")>>,
      <<ZoneRow("High", " g1"), ZoneRow("Middle", "g2 ")>> }

FlagTables ==
    { <<NoTable, NoTable, NoTable>>,
      <<Table("Z1", <<"s2">>), NoTable, NoTable>>,
      <<NoTable, Table("Z1", <<"s2">>), NoTable>> }

InitFlags ==
    /\ catalog \in { <<h, f>> : h \in HomeRows, f \in FlaggedRows }
    /\ db_failures = {}
    /\ geocoders = <<>>
    /\ matches \in FlagMatches
    /\ \E t \in FlagTables :
           /\ satellite_data = t[1]
           /\ zone_specific_magnets_data = t[2]
           /\ choice_zone_data = t[3]
    /\ pc = "ready"
    /\ user_network = NULL
    /\ user_reside_high_school_zone_name = NULL
    /\ final_schools_map = <<>>
    /\ results_by_zone = <<>>
    /\ is_in_choice_zone = FALSE
    /\ calls = <<>>
    /\ lat = Some(QueryPoint.lat)
    /\ lon = Some(QueryPoint.lng)
    /\ address_cache = PriorCache
    /\ NoRequest

SpecFlags == InitFlags /\ [][Next]_vars

(***************************************************************************)
(* The specification of the handler: requests answered one after another   *)
(* by handle_school_request, which geocodes the address and then calls the *)
(* core.                                                                   *)
(***************************************************************************)
\* the routes that call handle_school_request with fixed sort arguments
Routes ==
    { [path |-> "/school-zone", sort_key |-> "display_name", sort_desc |-> FALSE],
      [path |-> "/school-distances", sort_key |-> "distance_mi", sort_desc |-> FALSE],
      [path |-> "/school-ratings", sort_key |-> "great_schools_rating",
       sort_desc |-> TRUE] }

\* request.get_json(): <<>> when it is None or empty
Bodies == { <<>>, <<[address |-> " "]>>, <<[address |-> " a1"]>>, <<[address |-> "a2"]>> }

\* what gmaps.geocode does
GmapsResults ==
    { [raises |-> TRUE, results |-> <<>>],
      [raises |-> FALSE, results |-> <<>>],
      [raises |-> FALSE, results |-> <<QueryPoint>>],
      [raises |-> FALSE, results |-> <<OutsidePoint>>] }

RequestCatalogs ==
    LET H == Row(1, High_School, "G1", NULL, NULL, NULL, {})
        E(i, name, location, rating) ==
            Located(Row(i, Elementary_School, "G2", NULL, "D1", NULL, {}),
                    name, location, rating)
    IN  { <<H, E(2, "Beta", <<"38.2", "-85.7", 10>>, 3),
               E(3, "Alpha", <<"38.2", "-85.7", 20>>, 7)>>,
          <<H, E(2, "alpha", <<"38.2", NULL, 10>>, 3)>>,
          <<H>> }

RequestMatches == { <<>>, <<ZoneRow("Elementary", "G1")>> }

InitRequest ==
    /\ catalog \in RequestCatalogs
    /\ db_failures = {}
    /\ geocoders = <<>>
    /\ matches \in RequestMatches
    /\ satellite_data = NoTable
    /\ zone_specific_magnets_data = NoTable
    /\ choice_zone_data = NoTable
    /\ pc = "idle"
    /\ user_network = NULL
    /\ user_reside_high_school_zone_name = NULL
    /\ final_schools_map = <<>>
    /\ results_by_zone = <<>>
    /\ is_in_choice_zone = FALSE
    /\ calls = <<>>
    /\ lat = None
    /\ lon = None
    /\ address_cache = << >>
    /\ NoRequest

\* the locals of the core before it is called
CoreNotCalled ==
    /\ queried' = {}
    /\ is_in_choice_zone' = FALSE
    /\ user_network' = NULL
    /\ user_reside_high_school_zone_name' = NULL
    /\ calls' = <<>>
    /\ final_schools_map' = <<>>
    /\ results_by_zone' = <<>>

\* handle_school_request up to the call of the core: the body is read, the
\* address geocoded, and an error answered; pc becomes "located" when the
\* handler goes on to call the core, and "answered" when it has returned.
HandleSchoolRequestGeocode ==
    /\ pc \in {"idle", "answered", "done", "raised"}
    /\ served < MaxRequests
    /\ served' = served + 1
    /\ \E route \in Routes, data \in Bodies, gmaps_result \in GmapsResults :
           LET address == IF data = <<>> THEN "" ELSE Strip(data[1].address)
               geo == GeocodeAddress(address, address_cache, gmaps_result)
               status_code == ErrorStatusCode(geo.lat, geo.lon, geo.error_type)
           IN  /\ request' = [path |-> route.path, data |-> data]
               /\ sort_key' = route.sort_key
               /\ sort_desc' = route.sort_desc
               /\ IF data = <<>> \/ address = ""
                  THEN /\ response' = ErrorAnswer(400)
                       /\ pc' = "answered"
                       /\ lat' = None
                       /\ lon' = None
                       /\ gmaps_call' = <<>>
                       /\ UNCHANGED address_cache
                  ELSE /\ address_cache' = geo.cache
                       /\ gmaps_call' = IF address \in DOMAIN address_cache
                                        THEN <<>>
                                        ELSE <<gmaps_result>>
                       /\ lat' = geo.lat
                       /\ lon' = geo.lon
                       /\ IF status_code # 0
                          THEN /\ response' = ErrorAnswer(status_code)
                               /\ pc' = "answered"
                          ELSE /\ response' = <<>>
                               /\ pc' = "located"
    /\ CoreNotCalled
    /\ UNCHANGED <<catalog, db_failures, geocoders, matches, satellite_data, zone_specific_magnets_data,
                   choice_zone_data>>

\* The rest of handle_school_request: the core is called and its result
\* answered with 200; an exception out of the core is answered with 500.
HandleSchoolRequestResolve ==
    /\ pc = "located"
    /\ FindSchoolZonesAndDetailsCall(lat, lon)
    /\ response' =
           IF pc' = "raised"
           THEN ErrorAnswer(500)
           ELSE <<[status |-> 200,
                   body |-> ResponseData(Strip(request.data[1].address), lat, lon,
                                         StructuredResults(pc', results_by_zone'),
                                         is_in_choice_zone')]>>
    /\ UNCHANGED <<lat, lon, sort_key, sort_desc, request, gmaps_call, served>>

NextRequest == HandleSchoolRequestGeocode \/ HandleSchoolRequestResolve

SpecRequest == InitRequest /\ [][NextRequest]_vars

(***************************************************************************)
(* The specification of geocode_address called from several threads of the *)
(* server at once.  A call is up to three steps: the test and read of      *)
(* address_cache, the call of gmaps.geocode, and the write of              *)
(* address_cache with the return.  Another thread can run between them.    *)
(***************************************************************************)
Addresses == { "a1", " a1", "a2", " " }

Geocoder(t_pc, address, result, returned, n) ==
    [pc |-> t_pc, address |-> address, result |-> result, returned |-> returned,
     n |-> n]

InitGeocode ==
    /\ geocoders = [t \in 1..NumGeocoders |-> Geocoder("idle", "", <<>>, <<>>, 0)]
    /\ address_cache = << >>
    /\ catalog = <<>>
    /\ db_failures = {}
    /\ matches = <<>>
    /\ satellite_data = NoTable
    /\ zone_specific_magnets_data = NoTable
    /\ choice_zone_data = NoTable
    /\ pc = "idle"
    /\ user_network = NULL
    /\ user_reside_high_school_zone_name = NULL
    /\ final_schools_map = <<>>
    /\ results_by_zone = <<>>
    /\ is_in_choice_zone = FALSE
    /\ calls = <<>>
    /\ lat = None
    /\ lon = None
    /\ NoRequest

GeocodeFrame ==
    UNCHANGED <<catalog, db_failures, matches, satellite_data,
                zone_specific_magnets_data, choice_zone_data, pc, user_network,
                user_reside_high_school_zone_name, final_schools_map,
                results_by_zone, is_in_choice_zone, calls, lat, lon, sort_key,
                sort_desc, queried, request, gmaps_call, response, served>>

\* `if not address: return None, None, 'not_found'`, then
\* `if address in address_cache: return address_cache[address]`
GeocodeLookup(t) ==
    /\ geocoders[t].pc \in {"idle", "returned"}
    /\ geocoders[t].n < MaxGeocodes
    /\ \E p_address \in Addresses :
           LET address == Strip(p_address)
               n == geocoders[t].n + 1
           IN  geocoders' =
                   [geocoders EXCEPT ![t] =
                       IF address = ""
                       THEN Geocoder("returned", address, <<>>,
                                     <<GeocodeOutcome(address, <<>>)>>, n)
                       ELSE IF address \in DOMAIN address_cache
                       THEN Geocoder("returned", address, <<>>,
                                     <<address_cache[address]>>, n)
                       ELSE Geocoder("calling", address, <<>>, <<>>, n)]
    /\ UNCHANGED address_cache
    /\ GeocodeFrame

\* `results = gmaps.geocode(address, bounds=jc_bounds)`
GeocodeCall(t) ==
    /\ geocoders[t].pc = "calling"
    /\ \E gmaps_result \in GmapsResults :
           geocoders' = [geocoders EXCEPT ![t].pc = "storing",
                                          ![t].result = <<gmaps_result>>]
    /\ UNCHANGED address_cache
    /\ GeocodeFrame

\* `address_cache[address] = ...; return ...`
GeocodeStore(t) ==
    /\ geocoders[t].pc = "storing"
    /\ LET address == geocoders[t].address
           outcome == GeocodeOutcome(address, geocoders[t].result[1])
       IN  /\ address_cache' = (address :> outcome) @@ address_cache
           /\ geocoders' = [geocoders EXCEPT ![t].pc = "returned",
                                              ![t].returned = <<outcome>>]
    /\ GeocodeFrame

NextGeocode ==
    \E t \in 1..NumGeocoders : GeocodeLookup(t) \/ GeocodeCall(t) \/ GeocodeStore(t)

SpecGeocode == InitGeocode /\ [][NextGeocode]_vars

(***************************************************************************)
(* The specification of the server with the route that takes coordinates.  *)
(***************************************************************************)
\* `def handle_school_request(sort_key=None, sort_desc=False)`
handle_school_request_params == << "sort_key", "sort_desc" >>

\* Python's binding of positional arguments to the parameters of
\* handle_school_request: more arguments than parameters is a TypeError
\* raised at the call, before the body runs.
BindsArguments(args) == Len(args) <= Len(handle_school_request_params)

\* request.get_json() of a request to /school-details-by-coords
CoordsBodies ==
    { <<>>,
      <<[lat |-> QueryPoint.lat]>>,
      <<[lon |-> QueryPoint.lng]>>,
      <<[lat |-> QueryPoint.lat, lon |-> QueryPoint.lng]>>,
      <<[lat |-> OutsidePoint.lat, lon |-> OutsidePoint.lng, address |-> "a1"]>> }

HasCoords(data) ==
    data # <<>> /\ "lat" \in DOMAIN data[1] /\ "lon" \in DOMAIN data[1]

\* school_details_by_coords: 400 without lat and lon; otherwise it calls
\* handle_school_request(lat, lon, address_str, sort_key, sort_desc), and
\* the exception of that call is answered 500 by the server.
SchoolDetailsByCoords ==
    /\ pc \in {"idle", "answered", "done", "raised"}
    /\ served < MaxRequests
    /\ served' = served + 1
    /\ \E data \in CoordsBodies :
           /\ request' = [path |-> "/school-details-by-coords", data |-> data]
           /\ IF ~HasCoords(data)
              THEN /\ response' = ErrorAnswer(400)
                   /\ lat' = None
                   /\ lon' = None
                   /\ pc' = "answered"
              ELSE LET address_str == IF "address" \in DOMAIN data[1]
                                      THEN data[1].address
                                      ELSE "Coord lookup"
                       args == << data[1].lat, data[1].lon, address_str, NULL, NULL >>
                   IN  /\ lat' = Some(data[1].lat)
                       /\ lon' = Some(data[1].lon)
                       \* five positional arguments: the call raises
                       /\ ~BindsArguments(args)
                       /\ response' = ErrorAnswer(500)
                       /\ pc' = "answered"
    /\ sort_key' = NULL
    /\ sort_desc' = FALSE
    /\ gmaps_call' = <<>>
    /\ CoreNotCalled
    /\ UNCHANGED <<catalog, db_failures, geocoders, matches, satellite_data,
                   zone_specific_magnets_data, choice_zone_data, address_cache>>

NextCoords == NextRequest \/ SchoolDetailsByCoords

SpecCoords == InitRequest /\ [][NextCoords]_vars

(***************************************************************************)
(* The specification of requests during which the database cannot be read  *)
(* by some of the helpers: the file is gone, the connection fails or the   *)
(* query raises sqlite3.Error.                                             *)
(***************************************************************************)
OutageCatalogs ==
    LET H == Row(1, High_School, "G1", "A", NULL, "Z1", {"the_academies_of_louisville"})
    IN  { <<H, Row(2, Elementary_School, "G2", NULL, "D1", NULL,
                   {"universal_magnet_traditional_school"})>>,
          <<H, Row(2, Middle_School, "G2", "A", NULL, NULL, {"districtwide_pathways"})>> }

OutageMatches ==
    { <<>>, <<ZoneRow("High", " g1")>>,
      <<ZoneRow("High", " g1"), ZoneRow("Middle", "g2 "), ZoneRow("Elementary", "G1")>> }

InitOutage ==
    /\ catalog \in OutageCatalogs
    /\ db_failures \in SUBSET DbHelpers
    /\ geocoders = <<>>
    /\ matches \in OutageMatches
    /\ satellite_data \in {NoTable, Table("Z1", <<"s2">>)}
    /\ zone_specific_magnets_data = NoTable
    /\ choice_zone_data = NoTable
    /\ pc = "idle"
    /\ user_network = NULL
    /\ user_reside_high_school_zone_name = NULL
    /\ final_schools_map = <<>>
    /\ results_by_zone = <<>>
    /\ is_in_choice_zone = FALSE
    /\ calls = <<>>
    /\ lat = None
    /\ lon = None
    /\ address_cache = << >>
    /\ NoRequest

SpecOutage == InitOutage /\ [][NextRequest]_vars

(***************************************************************************)
(* Vocabulary of the properties.                                           *)
(***************************************************************************)
\* positions <<g, i>> of the schools of the result
Positions ==
    UNION { { <<g, i>> : i \in 1..Len(results_by_zone[g].schools) } :
            g \in 1..Len(results_by_zone) }

EntryAt(p) == results_by_zone[p[1]].schools[p[2]]
CategoryAt(p) == results_by_zone[p[1]].zone_type

InResult(sca) == \E p \in Positions : EntryAt(p).school_code_adjusted = sca

StatusInResult(sca, status) ==
    \E p \in Positions : /\ EntryAt(p).school_code_adjusted = sca
                         /\ EntryAt(p).display_status = status

CallsFor(sca) == { i \in 1..Len(calls) : calls[i].sca = sca }

CatalogCodes == { r.school_code_adjusted : r \in Range(catalog) }

\* the precedence the design gives the statuses: 1 is the highest
Precedence(status) ==
    CASE status = Academies_of_Louisville -> 1
      [] status = Magnet_Choice_Program -> 2
      [] status = Satellite_School -> 3
      [] status = Reside -> 4

\* the level a category is for
CategoryLevel(zone_type) ==
    CASE zone_type \in {"Elementary", TM_Elementary} -> Elementary_School
      [] zone_type \in {"Middle", TM_Middle} -> Middle_School
      [] zone_type \in {"High", TM_High} -> High_School

AllFlags == flag_columns \cup {"choice_zone"}

\* the place of a display name in case-insensitive ascending order
NameRank(name) ==
    CASE name \in {"alpha", "Alpha"} -> 1
      [] name = "Beta" -> 2
      [] name = "D1" -> 3
      [] name = "D2" -> 4
      [] name = "D3" -> 5
      [] name = "D4" -> 6

\* a before b is in ascending distance order, a null distance last
DistanceAscending(a, b) ==
    IF a.distance_mi = NoDistance THEN b.distance_mi = NoDistance
    ELSE b.distance_mi = NoDistance \/ a.distance_mi <= b.distance_mi

\* pairs <<g, i, j>>: in category g, school i stands before school j
OrderedPairs(groups) ==
    UNION { { <<g, i, j>> : i, j \in 1..Len(groups[g].schools) } :
            g \in 1..Len(groups) }

(***************************************************************************)
(* C1.  When a resolution is done, no school_code_adjusted appears at two  *)
(* positions of results_by_zone, whatever the categories.                  *)
(***************************************************************************)
C1_NoSchoolCodeTwice ==
    pc = "done" =>
        \A p, q \in Positions :
            EntryAt(p).school_code_adjusted = EntryAt(q).school_code_adjusted => p = q

\* a school in the result that two calls with different categories and
\* different statuses targeted
C1_Witness ==
    /\ pc = "done"
    /\ \E sca \in CatalogCodes :
           /\ InResult(sca)
           /\ \E i, j \in CallsFor(sca) : /\ calls[i].zone_type # calls[j].zone_type
                                          /\ calls[i].status # calls[j].status

(***************************************************************************)
(* C2.  After any sequence of add_school calls, the status kept for a      *)
(* school code is the status of highest precedence among the calls that    *)
(* targeted it (Academies of Louisville > Magnet/Choice Program >          *)
(* Satellite School > Reside).                                             *)
(***************************************************************************)
C2_HighestPrecedenceKept ==
    pc = "merge" =>
        \A sca \in MergeCodes \ {NULL} :
            CallsFor(sca) # {} =>
                \A i \in CallsFor(sca) :
                    Precedence(ExistingStatus(final_schools_map, sca))
                        <= Precedence(calls[i].status)

(***************************************************************************)
(* C3.  A school that a feeder call offers as Reside and the               *)
(* zone-specific-magnet table offers as Magnet/Choice Program, and that no *)
(* call offers as Academies of Louisville, is in the result with           *)
(* display_status Magnet/Choice Program.                                   *)
(***************************************************************************)
C3_ResideAndMagnetGivesMagnet ==
    pc = "done" =>
        \A sca \in CatalogCodes :
            ( /\ \E i \in CallsFor(sca) : calls[i].source = "feeder"
              /\ \E i \in CallsFor(sca) : calls[i].source = "zone_magnet"
              /\ \A i \in CallsFor(sca) : calls[i].status # Academies_of_Louisville )
            => StatusInResult(sca, Magnet_Choice_Program)

(***************************************************************************)
(* C4.  Every school of the result with display_status Reside is listed    *)
(* under Elementary, Middle or High, and every school with another         *)
(* display_status under a Traditional/Magnet category.                     *)
(***************************************************************************)
C4_CategoryMatchesStatus ==
    pc = "done" =>
        \A p \in Positions :
            IF EntryAt(p).display_status = Reside
            THEN CategoryAt(p) \in PlainCategories
            ELSE /\ EntryAt(p).display_status \in Statuses
                 /\ CategoryAt(p) \in TMCategories

\* a result with a Reside school that a Traditional/Magnet call also
\* targeted, beside a school of another status
C4_Witness ==
    /\ pc = "done"
    /\ \E p, q \in Positions :
           /\ EntryAt(p).display_status = Reside
           /\ \E i \in CallsFor(EntryAt(p).school_code_adjusted) :
                  calls[i].zone_type \in TMCategories
           /\ EntryAt(q).display_status # Reside

(***************************************************************************)
(* C5.  The level of the category a school is listed under is the          *)
(* school_level of its catalog row, for every display_status.              *)
(***************************************************************************)
C5_CategoryLevelIsSchoolLevel ==
    pc = "done" =>
        \A p \in Positions : CategoryLevel(CategoryAt(p)) = EntryAt(p).school_level

(***************************************************************************)
(* C6.  With a home network, a school whose only 'Yes' eligibility flag is *)
(* the_academies_of_louisville and that nothing but the flag rules targets *)
(* is absent from the result when its network differs from the home        *)
(* network, and is in it as Academies of Louisville when the two are equal.*)
(***************************************************************************)
FlagOnlyTarget(r) ==
    \A i \in CallsFor(r.school_code_adjusted) : calls[i].source = "flag"

C6_AcademyNeedsNetworkMatch ==
    (pc = "done" /\ user_network # NULL) =>
        \A r \in Range(catalog) :
            (r.yes \cap AllFlags = {"the_academies_of_louisville"} /\ FlagOnlyTarget(r)) =>
                IF r.network = user_network
                THEN StatusInResult(r.school_code_adjusted, Academies_of_Louisville)
                ELSE ~InResult(r.school_code_adjusted)

\* an academy school of the home network in the result
C6_Witness ==
    /\ pc = "done"
    /\ user_network # NULL
    /\ \E r \in Range(catalog) :
           /\ r.yes \cap AllFlags = {"the_academies_of_louisville"}
           /\ FlagOnlyTarget(r)
           /\ r.network = user_network
           /\ StatusInResult(r.school_code_adjusted, Academies_of_Louisville)

(***************************************************************************)
(* C7.  When no matched Reside-High row resolves to a school record, no    *)
(* school of the result has display_status Academies of Louisville.        *)
(***************************************************************************)
C7_NoHomeNoAcademy ==
    (pc = "done" /\ HomeDetails = <<>>) =>
        \A p \in Positions : EntryAt(p).display_status # Academies_of_Louisville

(***************************************************************************)
(* C8.  A school with districtwide_pathways 'Yes' and                      *)
(* the_academies_of_louisville 'Yes', of the home network, that nothing    *)
(* but the flag rules targets, is in the result as Magnet/Choice Program.  *)
(***************************************************************************)
C8_PathwayBeforeAcademy ==
    pc = "done" =>
        \A r \in Range(catalog) :
            ( /\ {"districtwide_pathways", "the_academies_of_louisville"} \subseteq r.yes
              /\ r.network = user_network
              /\ FlagOnlyTarget(r) )
            => StatusInResult(r.school_code_adjusted, Magnet_Choice_Program)

\* such a school, with a home network that is not null
C8_Witness ==
    /\ pc = "done"
    /\ user_network # NULL
    /\ \E r \in Range(catalog) :
           /\ {"districtwide_pathways", "the_academies_of_louisville"} \subseteq r.yes
           /\ r.network = user_network
           /\ FlagOnlyTarget(r)
           /\ StatusInResult(r.school_code_adjusted, Magnet_Choice_Program)

(***************************************************************************)
(* C9.  Every school of the result is a row of the catalog, listed with    *)
(* that row's fields; a call whose code is in no row adds nothing to the   *)
(* result.                                                                 *)
(***************************************************************************)
C9_ResultFromCatalogOnly ==
    pc = "done" =>
        \A p \in Positions :
            \E r \in Range(catalog) :
                /\ r.school_code_adjusted = EntryAt(p).school_code_adjusted
                /\ r.display_name = EntryAt(p).display_name
                /\ r.school_level = EntryAt(p).school_level

\* a resolution in which a call carried a code of no catalog row, and the
\* result is not empty
C9_Witness ==
    /\ pc = "done"
    /\ \E i \in 1..Len(calls) : calls[i].sca \notin CatalogCodes \cup {NULL}
    /\ Positions # {}

(***************************************************************************)
(* C11.  A call of find_school_zones_and_details leaves the process-wide   *)
(* state as it was: the rows of the zone GeoDataFrame, the catalog, the    *)
(* three override tables and address_cache.                                *)
(***************************************************************************)
C11_CoreLeavesGlobalsUnchanged ==
    [][(pc = "ready" /\ pc' # "ready") =>
           /\ matches' = matches
           /\ catalog' = catalog
           /\ satellite_data' = satellite_data
           /\ zone_specific_magnets_data' = zone_specific_magnets_data
           /\ choice_zone_data' = choice_zone_data
           /\ address_cache' = address_cache]_vars

\* a finished call that read the satellite table and the zone-magnet table,
\* with an entry in the cache
C11_Witness ==
    /\ pc = "done"
    /\ \E i \in 1..Len(calls) : calls[i].source = "satellite"
    /\ \E i \in 1..Len(calls) : calls[i].source = "zone_magnet"
    /\ satellite_data # NoTable
    /\ address_cache # << >>

(***************************************************************************)
(* C12.  The categories of results_by_zone are among Elementary, Middle,   *)
(* High, Traditional/Magnet Elementary, Traditional/Magnet Middle and      *)
(* Traditional/Magnet High, appear in that order, and each holds at least  *)
(* one school.                                                             *)
(***************************************************************************)
CategoryRank(zone_type) ==
    CASE zone_type = "Elementary" -> 1
      [] zone_type = "Middle" -> 2
      [] zone_type = "High" -> 3
      [] zone_type = "Traditional/Magnet Elementary" -> 4
      [] zone_type = "Traditional/Magnet Middle" -> 5
      [] zone_type = "Traditional/Magnet High" -> 6
      [] OTHER -> 0

C12_CategoriesInFixedOrder ==
    pc = "done" =>
        /\ \A g \in 1..Len(results_by_zone) :
               /\ CategoryRank(results_by_zone[g].zone_type) # 0
               /\ results_by_zone[g].schools # <<>>
        /\ \A g, h \in 1..Len(results_by_zone) :
               g < h => CategoryRank(results_by_zone[g].zone_type)
                            < CategoryRank(results_by_zone[h].zone_type)

\* a result with the categories Elementary and High, Middle left out, from a
\* map that holds the high school before the elementary school
C12_Witness ==
    /\ pc = "done"
    /\ Len(results_by_zone) = 2
    /\ results_by_zone[1].zone_type = "Elementary"
    /\ results_by_zone[2].zone_type = "High"
    /\ Len(final_schools_map) = 2
    /\ final_schools_map[1].zone_type = "High"

(***************************************************************************)
(* C13.  When the core is called without a sort key, the schools of each   *)
(* category stand in ascending distance order with the null distances      *)
(* last, and schools of equal distance (or both null) in ascending         *)
(* case-insensitive order of display_name.                                 *)
(***************************************************************************)
C13_DefaultOrderDistanceThenName ==
    (pc = "done" /\ sort_key = NULL) =>
        \A t \in OrderedPairs(results_by_zone) :
            LET a == results_by_zone[t[1]].schools[t[2]]
                b == results_by_zone[t[1]].schools[t[3]]
            IN  t[2] < t[3] =>
                    /\ DistanceAscending(a, b)
                    /\ a.distance_mi = b.distance_mi =>
                           NameRank(a.display_name) <= NameRank(b.display_name)

(***************************************************************************)
(* C14.  A request answered with 200 through a route that fixes a sort key *)
(* and direction lists the schools of each category in the order of that   *)
(* key in that direction.                                                  *)
(***************************************************************************)
KeyOrdered(key, desc, a, b) ==
    CASE key = "display_name" ->
             IF desc THEN NameRank(a.display_name) >= NameRank(b.display_name)
             ELSE NameRank(a.display_name) <= NameRank(b.display_name)
      [] key = "great_schools_rating" ->
             IF desc THEN a.great_schools_rating >= b.great_schools_rating
             ELSE a.great_schools_rating <= b.great_schools_rating
      [] key = "distance_mi" ->
             IF desc THEN DistanceAscending(b, a) ELSE DistanceAscending(a, b)

C14_CallerSortKeyOrders ==
    (pc = "done" /\ response # <<>>) =>
        (response[1].status = 200 =>
            \A t \in OrderedPairs(response[1].body.results_by_zone) :
                LET a == response[1].body.results_by_zone[t[1]].schools[t[2]]
                    b == response[1].body.results_by_zone[t[1]].schools[t[3]]
                IN  t[2] < t[3] => KeyOrdered(sort_key, sort_desc, a, b))

(***************************************************************************)
(* C15.  A call with valid coordinates never fails on a school whose row   *)
(* lacks the latitude, the longitude or both: every such school that a     *)
(* call targeted is in the result with distance_mi null, after every       *)
(* school of its category that has a distance.                             *)
(***************************************************************************)
LacksCoordinate(r) == r.latitude = NULL \/ r.longitude = NULL

C15_MissingCoordinateGivesNullDistance ==
    (pc \in {"done", "raised"}) =>
        /\ pc = "done"
        /\ \A r \in Range(catalog) :
               (LacksCoordinate(r) /\ CallsFor(r.school_code_adjusted) # {}) =>
                   \E p \in Positions :
                       /\ EntryAt(p).school_code_adjusted = r.school_code_adjusted
                       /\ EntryAt(p).distance_mi = NoDistance
                       /\ \A q \in Positions :
                              (q[1] = p[1] /\ EntryAt(q).distance_mi # NoDistance)
                                  => q[2] < p[2]

(***************************************************************************)
(* C16.  Called with a latitude or a longitude that is None, the core      *)
(* returns at once: it reads neither the zone rows nor the catalog and     *)
(* makes no add_school call, and the answer built from its return value    *)
(* has an empty results_by_zone and is_in_choice_zone false.               *)
(***************************************************************************)
C16_InvalidCoordsFailFast ==
    (pc # "ready" /\ (lat = None \/ lon = None)) =>
        LET response_data ==
                ResponseData("a1", lat, lon, StructuredResults(pc, results_by_zone),
                             is_in_choice_zone)
        IN  /\ pc = "invalid"
            /\ queried = {}
            /\ calls = <<>>
            /\ response_data.results_by_zone = <<>>
            /\ response_data.is_in_choice_zone = FALSE

\* a call with a latitude and no longitude, over rows that include the
\* Choice zone and an Elementary cluster with a feeder
C16_Witness ==
    /\ pc = "invalid"
    /\ lat # None
    /\ lon = None
    /\ IsInChoiceZone
    /\ AllCalls # <<>>

(***************************************************************************)
(* C17.  A matched zone row whose identifier yields no add_school call (a  *)
(* GIS name no catalog row carries, or a high-school key without feeders)  *)
(* changes nothing else: the result and the choice-zone flag are those of  *)
(* the same resolution over the matched rows without that row.             *)
(***************************************************************************)
Unresolved(row) == row.zone_type # "Choice" /\ GisRowCalls(row) = <<>>

RemoveAt(rows, k) == SubSeq(rows, 1, k - 1) \o SubSeq(rows, k + 1, Len(rows))

ResultOver(rows) == OutputStructure(MergeCalls(<<>>, AllCallsOf(rows)))

C17_UnresolvedZoneOnlySkipsItself ==
    pc = "done" =>
        \A k \in 1..Len(matches) :
            Unresolved(matches[k]) =>
                /\ results_by_zone = ResultOver(RemoveAt(matches, k))
                /\ is_in_choice_zone = IsInChoiceZoneOf(RemoveAt(matches, k))

(***************************************************************************)
(* C18.  When the handler has called the core for a geocoded address and   *)
(* no add_school call names a school of the catalog, the request is        *)
(* answered with status 200 and an empty results_by_zone list.             *)
(***************************************************************************)
C18_NoSchoolIsNotAnError ==
    (pc \in {"done", "raised", "invalid"} /\ request # <<>>
     /\ \A i \in 1..Len(calls) : calls[i].sca \notin CatalogCodes) =>
        /\ response # <<>>
        /\ response[1].status = 200
        /\ response[1].body.results_by_zone = <<>>

\* such an answer, for a point inside the county that lies in a zone
C18_Witness ==
    /\ pc = "done"
    /\ request # <<>>
    /\ matches # <<>>
    /\ InBounds(lat[1], lon[1])
    /\ response[1].status = 200
    /\ response[1].body.results_by_zone = <<>>

(***************************************************************************)
(* C19.  For a point in an Elementary-cluster zone whose high-school key   *)
(* names the high school H, with empty override tables and no school with  *)
(* an eligibility flag, the Elementary category holds exactly the          *)
(* Elementary School rows whose feeder_to_high_school is the display name  *)
(* of H, each with status Reside, in ascending distance order.             *)
(***************************************************************************)
\* the high schools a zone key names
HighSchoolsNamed(key) ==
    { r \in Range(catalog) : r.gis_name = StripUpper(key) /\ r.school_level = High_School }

FeedersOf(h) ==
    { r.school_code_adjusted : r \in { x \in Range(catalog) :
          /\ x.school_level = Elementary_School
          /\ x.feeder_to_high_school = h.display_name } }

\* the schools listed under a category; <<>> when it is left out
SchoolsUnder(zone_type) ==
    IF \E g \in 1..Len(results_by_zone) : results_by_zone[g].zone_type = zone_type
    THEN results_by_zone[CHOOSE g \in 1..Len(results_by_zone) :
                            results_by_zone[g].zone_type = zone_type].schools
    ELSE <<>>

NoOverridesNoFlags ==
    /\ satellite_data = NoTable
    /\ zone_specific_magnets_data = NoTable
    /\ choice_zone_data = NoTable
    /\ \A r \in Range(catalog) : r.yes = {}

C19_ElementaryClusterListsFeeders ==
    (pc = "done" /\ NoOverridesNoFlags) =>
        \A k \in 1..Len(matches) : \A h \in HighSchoolsNamed(matches[k].key) :
            matches[k].zone_type = "Elementary" =>
                LET schools == SchoolsUnder("Elementary")
                IN  /\ { schools[i].school_code_adjusted : i \in 1..Len(schools) }
                           = FeedersOf(h)
                    /\ Len(schools) = Cardinality(FeedersOf(h))
                    /\ \A i \in 1..Len(schools) : schools[i].display_status = Reside
                    /\ \A i, j \in 1..Len(schools) :
                           i < j => DistanceAscending(schools[i], schools[j])

\* a cluster with two feeders, listed in the order opposite to the table's
C19_Witness ==
    /\ pc = "done"
    /\ NoOverridesNoFlags
    /\ \E k \in 1..Len(matches) :
           /\ matches[k].zone_type = "Elementary"
           /\ HighSchoolsNamed(matches[k].key) # {}
    /\ Len(SchoolsUnder("Elementary")) = 2
    /\ SchoolsUnder("Elementary")[1].school_code_adjusted = "s3"
    /\ SchoolsUnder("Elementary")[1].distance_mi < SchoolsUnder("Elementary")[2].distance_mi

(***************************************************************************)
(* C20.  The handler calls the core only with coordinates the geocoder     *)
(* gave that lie inside the Jefferson County bounds; a geocoder service    *)
(* error is answered with 503, an address not found or a location outside  *)
(* the bounds with 400, and in those cases the core is not called.         *)
(***************************************************************************)
CoreCalled == pc \in {"located", "done", "raised", "invalid"}

C20_CoreOnlyAfterInBoundsGeocode ==
    request # <<>> =>
        /\ CoreCalled =>
               /\ lat # None /\ lon # None
               /\ InBounds(lat[1], lon[1])
               /\ address_cache[Strip(request.data[1].address)] = <<lat, lon, NULL>>
               /\ gmaps_call # <<>> =>
                      /\ ~gmaps_call[1].raises
                      /\ gmaps_call[1].results # <<>>
                      /\ gmaps_call[1].results[1].lat = lat[1]
                      /\ gmaps_call[1].results[1].lng = lon[1]
        /\ (pc = "answered" /\ gmaps_call # <<>>) =>
               /\ queried = {} /\ calls = <<>>
               /\ response[1].status =
                      IF gmaps_call[1].raises THEN 503 ELSE 400
               /\ ~gmaps_call[1].raises =>
                      \/ gmaps_call[1].results = <<>>
                      \/ ~InBounds(gmaps_call[1].results[1].lat,
                                   gmaps_call[1].results[1].lng)
        /\ (pc \in {"done", "raised", "invalid"}) => queried # {}

\* a service error answered with 503 for one address, then the core called
\* for another address that the geocoder placed inside the county
C20_Witness ==
    /\ served = 2
    /\ pc = "done"
    /\ "a1" \in DOMAIN address_cache
    /\ address_cache["a1"][3] = "service_error"
    /\ gmaps_call # <<>>
    /\ InBounds(lat[1], lon[1])
    /\ response[1].status = 200

(***************************************************************************)
(* C21.  An add_school call whose status is the status already kept for    *)
(* its school code leaves the map as it is: the entry seen first keeps its *)
(* status and its category.                                                *)
(***************************************************************************)
C21_TieKeepsFirstSeen ==
    [][(pc = "merge" /\ Len(calls') = Len(calls) + 1) =>
           LET c == calls'[Len(calls')]
           IN  (c.sca # NULL /\ ExistingStatus(final_schools_map, c.sca) = c.status)
                   => final_schools_map' = final_schools_map]_vars

(***************************************************************************)
(* C22.  A zone key that is looked up without a level hint (the key of a   *)
(* Traditional/Magnet Elementary row, the high-school key of an Elementary *)
(* row) and that is the gis_name of catalog rows of more than one school   *)
(* level selects no school: the row makes no add_school call.              *)
(***************************************************************************)
LevelsNamed(key) ==
    { r.school_level : r \in { x \in Range(catalog) : x.gis_name = StripUpper(key) } }

AmbiguousRows ==
    { k \in 1..Len(matches) :
          /\ matches[k].zone_type \in {TM_Elementary, "Elementary"}
          /\ Cardinality(LevelsNamed(matches[k].key)) > 1 }

C22_AmbiguousKeyIsNotFound ==
    pc = "done" =>
        \A k \in AmbiguousRows :
            IF matches[k].zone_type = "Elementary"
            THEN \A i \in 1..Len(calls) : calls[i].source # "feeder"
            ELSE \A i \in 1..Len(calls) :
                     ~(calls[i].source = "gis" /\ calls[i].zone_type = TM_Elementary)

(***************************************************************************)
(* C24.  is_in_choice_zone is true exactly when a matched row is of the    *)
(* Choice layer.  The entries of the choice-zone-options table are added,  *)
(* as Reside under Elementary or Middle, only when is_in_choice_zone is    *)
(* true and the reside-zone name is a key of the table; the Choice rows    *)
(* add nothing else: the other calls are those of the matched rows without *)
(* the Choice rows.                                                        *)
(***************************************************************************)
NonChoiceRows ==
    LET NotChoice(row) == row.zone_type # "Choice"
    IN  SelectSeq(matches, NotChoice)

CallsNotFromChoiceTable ==
    LET Other(c) == c.source # "choice"
    IN  SelectSeq(calls, Other)

C24_ChoiceZoneOnlyGatesOptions ==
    pc = "done" =>
        /\ is_in_choice_zone = (\E k \in 1..Len(matches) : matches[k].zone_type = "Choice")
        /\ \A i \in 1..Len(calls) :
               calls[i].source = "choice" =>
                   /\ is_in_choice_zone
                   /\ user_reside_high_school_zone_name \in DOMAIN choice_zone_data
                   /\ calls[i].status = Reside
                   /\ calls[i].zone_type \in {"Elementary", "Middle"}
        /\ CallsNotFromChoiceTable = AllCallsOf(NonChoiceRows)

\* a point in the Choice zone whose reside zone has options, one of them in
\* the result
C24_Witness ==
    /\ pc = "done"
    /\ is_in_choice_zone
    /\ \E i \in 1..Len(calls) :
           /\ calls[i].source = "choice"
           /\ StatusInResult(calls[i].sca, Reside)

(***************************************************************************)
(* C29.  The home network and the reside-zone name are those of the        *)
(* catalog record of the first matched High row.  When that row's key is   *)
(* empty or names no high school, both stay null, whatever the other       *)
(* matched High rows, and no override table makes an add_school call.      *)
(***************************************************************************)
HighRows ==
    LET IsHigh(row) == row.zone_type = "High"
    IN  SelectSeq(matches, IsHigh)

\* the high schools of the catalog that a High row names
NamedBy(row) ==
    { r \in Range(catalog) :
          /\ StripUpper(row.key) # ""
          /\ r.gis_name = StripUpper(row.key)
          /\ r.school_level = High_School }

ChoiceZoneFlagged ==
    { r \in Range(catalog) :
          /\ r.yes \cap flag_columns # {}
          /\ "choice_zone" \in r.yes
          /\ "universal_magnet_traditional_school" \notin r.yes
          /\ "universal_magnet_traditional_program" \notin r.yes
          /\ "districtwide_pathways" \notin r.yes
          /\ r.network # user_network }

C23_ChoiceZoneFlagIsMagnet ==
    pc = "done" =>
        \A r \in ChoiceZoneFlagged :
            \E i \in CallsFor(r.school_code_adjusted) :
                /\ calls[i].source = "flag"
                /\ calls[i].status = Magnet_Choice_Program

(***************************************************************************)
(* C25.  The program annotation of an entry follows from its status and    *)
(* its record: Magnet/Choice Program shows 'Districtwide Pathway' with the *)
(* pathway programs when districtwide_pathways is 'Yes' and the programs   *)
(* are present, else 'Magnet' with magnet_programs when present, else      *)
(* nothing; Academies of Louisville, and Reside with academy programs,     *)
(* show 'Academies of Louisville' with the academy programs; Satellite     *)
(* School, and Reside without academy programs, show nothing.              *)
(***************************************************************************)
RecordOf(entry) ==
    CHOOSE r \in Range(catalog) : r.school_code_adjusted = entry.school_code_adjusted

Present(x) == x # NULL /\ x # ""

Shows(entry, type, programs) ==
    entry.display_program_type = type /\ entry.display_programs = programs

C25_ProgramAnnotations ==
    pc = "done" =>
        \A p \in Positions :
            LET entry == EntryAt(p)
                r == RecordOf(entry)
                pathway == /\ "districtwide_pathways" \in r.yes
                           /\ Present(r.districtwide_pathways_programs)
            IN  /\ (entry.display_status = Magnet_Choice_Program /\ pathway)
                       => Shows(entry, "Districtwide Pathway",
                                r.districtwide_pathways_programs)
                /\ (/\ entry.display_status = Magnet_Choice_Program
                    /\ ~pathway
                    /\ Present(r.magnet_programs))
                       => Shows(entry, "Magnet", r.magnet_programs)
                /\ (/\ entry.display_status = Magnet_Choice_Program
                    /\ ~pathway
                    /\ ~Present(r.magnet_programs))
                       => Shows(entry, NULL, NULL)
                /\ (\/ entry.display_status = Academies_of_Louisville
                    \/ /\ entry.display_status = Reside
                       /\ Present(r.the_academies_of_louisville_programs))
                       => Shows(entry, "Academies of Louisville",
                                r.the_academies_of_louisville_programs)
                /\ (entry.display_status = Reside
                       /\ ~Present(r.the_academies_of_louisville_programs))
                       => Shows(entry, NULL, NULL)
                /\ entry.display_status = Satellite_School => Shows(entry, NULL, NULL)

\* a Reside entry showing its academy programs next to a Magnet/Choice
\* Program entry that has both program lists and shows the pathway ones
C25_Witness ==
    /\ pc = "done"
    /\ \E p, q \in Positions :
           /\ EntryAt(p).display_status = Reside
           /\ EntryAt(p).display_program_type = "Academies of Louisville"
           /\ EntryAt(q).display_status = Magnet_Choice_Program
           /\ Present(RecordOf(EntryAt(q)).magnet_programs)
           /\ EntryAt(q).display_program_type = "Districtwide Pathway"

(***************************************************************************)
(* C26.  When the database cannot be read by a helper, the helper returns  *)
(* its empty value: no school comes from a lookup by GIS name, from the    *)
(* feeder query or from the flag query that failed, and no entry is built  *)
(* when the details query failed.  The core does not raise, and the        *)
(* request is answered 200 with the schools that could still be resolved.  *)
(***************************************************************************)
NoCallsFrom(sources) == \A i \in 1..Len(calls) : calls[i].source \notin sources

C26_OutageDegradesToPartialResult ==
    /\ pc # "raised"
    /\ pc = "done" =>
           /\ response # <<>>
           /\ response[1].status = 200
           /\ response[1].body.results_by_zone = results_by_zone
           /\ "get_info_from_gis" \in db_failures =>
                  /\ NoCallsFrom({"gis", "feeder"})
                  /\ user_network = NULL
                  /\ user_reside_high_school_zone_name = NULL
           /\ "get_elementary_feeder_scas" \in db_failures => NoCallsFrom({"feeder"})
           /\ "get_address_independent_schools_info" \in db_failures
                  => NoCallsFrom({"flag"})
           /\ "get_school_details_by_scas" \in db_failures =>
                  /\ results_by_zone = <<>>
                  /\ user_network = NULL

\* the flag query alone failed: the zoned schools are answered, and the
\* flagged school of the table that no zone names is missing
C26_Witness ==
    /\ pc = "done"
    /\ db_failures = {"get_address_independent_schools_info"}
    /\ response[1].status = 200
    /\ InResult("s1")
    /\ \E r \in Range(catalog) :
           /\ r.yes \cap flag_columns # {}
           /\ ~InResult(r.school_code_adjusted)

(***************************************************************************)
(* C27.  When several threads geocode one address at once, every writer    *)
(* stores the same value, so the entry of address_cache is the value that  *)
(* each of the completed calls for the address returned.                   *)
(***************************************************************************)
C27_RacingWritersAgree ==
    \A t \in DOMAIN geocoders :
        (geocoders[t].pc = "returned" /\ geocoders[t].address # "") =>
            /\ geocoders[t].address \in DOMAIN address_cache
            /\ geocoders[t].returned = <<address_cache[geocoders[t].address]>>

(***************************************************************************)
(* C28.  Once a call of geocode_address has returned for an address, every *)
(* call for that address that starts later returns the same outcome, and   *)
(* returns it from address_cache without calling gmaps.geocode.            *)
(***************************************************************************)
Starts(t) ==
    /\ geocoders[t].pc \in {"idle", "returned"}
    /\ geocoders'[t].n = geocoders[t].n + 1

C28_OutcomeIsSticky ==
    [][\A t, u \in DOMAIN geocoders :
           (/\ Starts(t)
            /\ geocoders[u].pc = "returned"
            /\ geocoders[u].address = geocoders'[t].address)
               => /\ geocoders'[t].pc = "returned"
                  /\ geocoders'[t].returned = geocoders[u].returned]_vars

(***************************************************************************)
(* C30.  A request to /school-details-by-coords whose body has lat and lon *)
(* is answered 200 with the resolution for those coordinates, the core     *)
(* having read the zones and the geocoder not having been called; it is    *)
(* answered 400 exactly when lat or lon is missing.                        *)
(***************************************************************************)
C30_CoordsRouteResolves ==
    (/\ request # <<>>
     /\ request.path = "/school-details-by-coords"
     /\ response # <<>>) =>
        IF HasCoords(request.data)
        THEN /\ response[1].status = 200
             /\ gmaps_call = <<>>
             /\ "all_zones_gdf" \in queried
        ELSE response[1].status = 400

====
